---------------------------- MODULE Spec2Model ----------------------------
(***************************************************************************)
(* Model of inventory_from_images.py: main() collects the image files of a *)
(* folder, writes one spreadsheet row per file (thumbnail in column A,     *)
(* temporary name in column B) and saves the workbook.                     *)
(*                                                                         *)
(* Text is a sequence of character codes (ASCII), so that suffix, stem,    *)
(* lower-casing, path ordering and the strftime format are computed, not   *)
(* assumed.  A path is the sequence of its components below the input      *)
(* folder (for the output: below the working directory).                   *)
(* Row heights are kept in quarter points (height * 4), which makes        *)
(* thumb_size * 0.75 an integer.                                           *)
(***************************************************************************)
EXTENDS Integers, Sequences, FiniteSets, TLC

\* Largest number of entries in the input folders that are explored.
MaxEntries == 3

(***************************************************************************)
(* Text helpers                                                            *)
(***************************************************************************)
Underscore == <<95>>

\* str.lower() on one character / on a text
LowerChar(c) == IF c >= 65 /\ c <= 90 THEN c + 32 ELSE c
Lower(s) == [i \in 1..Len(s) |-> LowerChar(s[i])]

\* str.rfind('.'), 1-based; 0 when there is no dot
RFindDot(s) ==
    LET hits == {i \in 1..Len(s) : s[i] = 46}
    IN  IF hits = {} THEN 0 ELSE CHOOSE i \in hits : \A j \in hits : j <= i

\* PurePath.name: the last component
Name(p) == IF Len(p) = 0 THEN <<>> ELSE p[Len(p)]

\* PurePath.suffix: from the last dot of the name, unless that dot is the
\* first or the last character of the name
Suffix(p) ==
    LET n == Name(p)
        i == RFindDot(n)
    IN  IF i > 1 /\ i < Len(n) THEN SubSeq(n, i, Len(n)) ELSE <<>>

\* PurePath.stem: the name without its suffix
Stem(p) ==
    LET n == Name(p)
        i == RFindDot(n)
    IN  IF i > 1 /\ i < Len(n) THEN SubSeq(n, 1, i - 1) ELSE n

\* PurePath.parent and PurePath.with_name
Parent(p) == IF Len(p) = 0 THEN <<>> ELSE SubSeq(p, 1, Len(p) - 1)
WithName(p, n) == Append(Parent(p), n)

\* s < t for two texts (code point by code point, a proper prefix is smaller)
TextLess(s, t) ==
    \E i \in 1..(Len(t)) :
        /\ \A j \in 1..(i - 1) : j <= Len(s) /\ s[j] = t[j]
        /\ \/ i > Len(s)
           \/ i <= Len(s) /\ s[i] < t[i]

\* PurePath.__lt__: the component lists are compared, component by component
PathLess(p, q) ==
    \E i \in 1..(Len(q)) :
        /\ \A j \in 1..(i - 1) : j <= Len(p) /\ p[j] = q[j]
        /\ \/ i > Len(p)
           \/ i <= Len(p) /\ TextLess(p[i], q[i])

(***************************************************************************)
(* Program constants                                                       *)
(***************************************************************************)
\* {".jpg", ".jpeg", ".png", ".webp"}
SUPPORTED_EXTS ==
    { <<46, 106, 112, 103>>, <<46, 106, 112, 101, 103>>,
      <<46, 112, 110, 103>>, <<46, 119, 101, 98, 112>> }

\* "Photo", "Temporary Name"
HeaderA == <<80, 104, 111, 116, 111>>
HeaderB == <<84, 101, 109, 112, 111, 114, 97, 114, 121, 32, 78, 97, 109, 101>>

\* "[ERROR reading image] "
ErrPrefix ==
    <<91, 69, 82, 82, 79, 82, 32, 114, 101, 97, 100, 105, 110, 103, 32,
      105, 109, 97, 103, 101, 93, 32>>

\* f"[ERROR reading image] {fp.name}"
ErrorText(fp) == ErrPrefix \o Name(fp)

\* (fault: the 80-point floor is used for every thumbnail size)
RowHeightAs(thumb_size) == 80 * 4

\* max(80, thumb_size * 0.75), in quarter points
RowHeight(thumb_size) ==
    IF 80 * 4 >= thumb_size * 3 THEN 80 * 4 ELSE thumb_size * 3

\* strftime("%Y%m%d_%H%M%S")
Pad2(n) == <<48 + (n \div 10), 48 + (n % 10)>>
Pad4(n) == Pad2(n \div 100) \o Pad2(n % 100)
Strftime(t) ==
    Pad4(t.Y) \o Pad2(t.m) \o Pad2(t.d) \o Underscore
        \o Pad2(t.H) \o Pad2(t.M) \o Pad2(t.S)

(***************************************************************************)
(* Inputs                                                                  *)
(***************************************************************************)
\* The entries an input folder may hold: path below the folder, and whether
\* the entry is a regular file (otherwise a directory).  The directories
\* "a" and "a-b" that hold nested files have no supported suffix and are
\* left implicit.
Universe ==
    { [parts |-> << <<97, 46, 106, 112, 103>> >>, file |-> TRUE],              \* a.jpg
      [parts |-> << <<98, 46, 80, 78, 71>> >>, file |-> TRUE],                 \* b.PNG
      [parts |-> << <<110, 111, 116, 101, 115, 46, 116, 120, 116>> >>,
       file |-> TRUE],                                                         \* notes.txt
      [parts |-> << <<97>>, <<121, 46, 119, 101, 98, 112>> >>, file |-> TRUE], \* a/y.webp
      [parts |-> << <<97, 45, 98>>, <<120, 46, 74, 80, 71>> >>,
       file |-> TRUE],                                                         \* a-b/x.JPG
      [parts |-> << <<122, 46, 106, 112, 101, 103>> >>, file |-> FALSE],       \* z.jpeg/
      [parts |-> << <<46, 112, 110, 103>> >>, file |-> TRUE] }                 \* .png

Folders == {D \in SUBSET Universe : Cardinality(D) <= MaxEntries}

\* --output: "inv.xlsx" and "out/o.tar.gz" (the directory "out" is absent)
Outputs ==
    { << <<105, 110, 118, 46, 120, 108, 115, 120>> >>,
      << <<111, 117, 116>>, <<111, 46, 116, 97, 114, 46, 103, 122>> >> }

\* --thumb-size
ThumbSizes == {100, 107}

\* datetime.now()
Clocks ==
    { [Y |-> 2024, m |-> 1, d |-> 9, H |-> 0, M |-> 5, S |-> 59],
      [Y |-> 2026, m |-> 11, d |-> 30, H |-> 23, M |-> 40, S |-> 7] }

ArgSets ==
    [input : {"dir", "missing", "file"}, recursive : BOOLEAN,
     thumb_size : ThumbSizes, timestamped : BOOLEAN, output : Outputs]


\* Rows of the sheet that the model keeps (two per collected entry suffice)
RowLimit == 2 * MaxEntries + 2

EmptyRow == [A |-> <<>>, B |-> <<>>, images |-> <<>>, height |-> 0]

(***************************************************************************)
(* File collection                                                         *)
(***************************************************************************)
\* input_path.rglob("*"): every entry at any depth, files and directories
RGlob(D) == {e.parts : e \in D}

\* input_path.iterdir(): the direct children
IterDir(D) == {e.parts : e \in {x \in D : Len(x.parts) = 1}}

\* p.is_file()
IsFile(D, p) == \E e \in D : e.parts = p /\ e.file

\* p.suffix.lower() in SUPPORTED_EXTS
Supported(p) == Lower(Suffix(p)) \in SUPPORTED_EXTS

\* The entries the list comprehension keeps
Matched(D, recursive) ==
    IF recursive
    THEN {p \in RGlob(D) : Supported(p)}
    ELSE {p \in IterDir(D) : IsFile(D, p) /\ Supported(p)}

\* The orders in which the file system may enumerate a set of entries
Enumerations(S) ==
    {s \in [1..Cardinality(S) -> S] : \A i, j \in 1..Cardinality(S) : s[i] = s[j] => i = j}

\* sorted(): insertion into a sorted list, by PurePath.__lt__
RECURSIVE Insert(_, _)
Insert(p, s) ==
    IF s = <<>> THEN <<p>>
    ELSE IF PathLess(p, Head(s)) THEN <<p>> \o s
    ELSE <<Head(s)>> \o Insert(p, Tail(s))

RECURSIVE SortedFrom(_, _)
SortedFrom(s, acc) ==
    IF s = <<>> THEN acc ELSE SortedFrom(Tail(s), Insert(Head(s), acc))

\* (fault: the list is left in the order of enumeration)
SortedAs(s) == s

Sorted(s) == SortedFrom(s, <<>>)

(***************************************************************************)
(* State                                                                   *)
(***************************************************************************)
VARIABLES
    pc,         \* position in main()
    args,       \* parsed command line
    libs,       \* which of the two libraries can be imported
    folder,     \* entries of the input folder
    files,      \* the collected, sorted list
    idx,        \* position of fp in files (0 before the loop)
    row,        \* the row counter
    ws,         \* the sheet: row -> cells A and B, anchored images, height
    opened,     \* source image files currently open
    out_path,   \* the resolved output path
    fsDirs,     \* directories that exist below the working directory
    written,    \* output files written by this run
    mkdirs,     \* directories created by this run
    exit_code,  \* process exit status (-1 while running)
    warned,     \* the "no supported image files" warning was printed
    wbCount,    \* workbooks created
    saves,      \* calls of wb.save that completed
    failed,     \* positions in files whose processing raised
    touched     \* <<position in files, row>> of every write of the loop

vars ==
    <<pc, args, libs, folder, files, idx, row, ws, opened, out_path, fsDirs,
      written, mkdirs, exit_code, warned, wbCount, saves, failed, touched>>

fp == files[idx]

Init ==
    /\ pc = "import_pillow"
    /\ args \in ArgSets
    /\ libs \in {"ok", "no_pillow", "no_openpyxl"}
    /\ folder \in Folders
    /\ (args.input # "dir" => folder = {})
    /\ files = <<>>
    /\ idx = 0
    /\ row = 0
    /\ ws = [r \in 1..RowLimit |-> EmptyRow]
    /\ opened = {}
    /\ out_path = <<>>
    /\ fsDirs = {<<>>}
    /\ written = {}
    /\ mkdirs = {}
    /\ exit_code = -1
    /\ warned = FALSE
    /\ wbCount = 0
    /\ saves = 0
    /\ failed = {}
    /\ touched = {}

(***************************************************************************)
(* main(): start-up                                                        *)
(***************************************************************************)
\* from PIL import Image: a failure is reported and re-raised
ImportPillow ==
    /\ pc = "import_pillow"
    /\ IF libs = "no_pillow"
       THEN pc' = "uncaught" /\ exit_code' = 1
       ELSE pc' = "import_openpyxl" /\ exit_code' = exit_code
    /\ UNCHANGED <<args, libs, folder, files, idx, row, ws, opened, out_path,
                   fsDirs, written, mkdirs, warned, wbCount, saves, failed, touched>>

\* from openpyxl import Workbook: a failure is reported and re-raised
ImportOpenpyxl ==
    /\ pc = "import_openpyxl"
    /\ IF libs = "no_openpyxl"
       THEN pc' = "uncaught" /\ exit_code' = 1
       ELSE pc' = "check_input" /\ exit_code' = exit_code
    /\ UNCHANGED <<args, libs, folder, files, idx, row, ws, opened, out_path,
                   fsDirs, written, mkdirs, warned, wbCount, saves, failed, touched>>

\* (fault: the input check reports nothing and the run goes on)
CheckInputAs ==
    /\ pc = "check_input"
    /\ pc' = "collect"
    /\ UNCHANGED <<args, libs, folder, files, idx, row, ws, opened, out_path,
                   fsDirs, written, mkdirs, exit_code, warned, wbCount, saves,
                   failed, touched>>

\* if not input_path.exists() or not input_path.is_dir(): sys.exit(1)
CheckInput ==
    /\ pc = "check_input"
    /\ IF args.input # "dir"
       THEN pc' = "exited" /\ exit_code' = 1
       ELSE pc' = "collect" /\ exit_code' = exit_code
    /\ UNCHANGED <<args, libs, folder, files, idx, row, ws, opened, out_path,
                   fsDirs, written, mkdirs, warned, wbCount, saves, failed, touched>>

\* files = sorted([...]); a warning when nothing matched
Collect ==
    /\ pc = "collect"
    /\ \E listing \in Enumerations(Matched(folder, args.recursive)) :
           files' = Sorted(listing)
    /\ warned' = (files' = <<>>)
    /\ pc' = "prepare"
    /\ UNCHANGED <<args, libs, folder, idx, row, ws, opened, out_path, fsDirs,
                   written, mkdirs, exit_code, wbCount, saves, failed, touched>>

\* wb = Workbook(); headers; row = 2
Prepare ==
    /\ pc = "prepare"
    /\ wbCount' = wbCount + 1
    /\ ws' = [r \in 1..RowLimit |->
                 IF r = 1 THEN [EmptyRow EXCEPT !.A = HeaderA, !.B = HeaderB]
                 ELSE EmptyRow]
    /\ row' = 2
    /\ pc' = "loop"
    /\ UNCHANGED <<args, libs, folder, files, idx, opened, out_path, fsDirs,
                   written, mkdirs, exit_code, warned, saves, failed, touched>>

(***************************************************************************)
(* main(): the row loop                                                    *)
(***************************************************************************)
\* (fault: the loop is left after the first file)
LoopNextAs ==
    /\ pc = "loop"
    /\ IF idx < Len(files) /\ idx < 1
       THEN idx' = idx + 1 /\ pc' = "open"
       ELSE idx' = idx /\ pc' = "out_name"
    /\ UNCHANGED <<args, libs, folder, files, row, ws, opened, out_path, fsDirs,
                   written, mkdirs, exit_code, warned, wbCount, saves, failed, touched>>

\* for fp in files
LoopNext ==
    /\ pc = "loop"
    /\ IF idx < Len(files)
       THEN idx' = idx + 1 /\ pc' = "open"
       ELSE idx' = idx /\ pc' = "out_name"
    /\ UNCHANGED <<args, libs, folder, files, row, ws, opened, out_path, fsDirs,
                   written, mkdirs, exit_code, warned, wbCount, saves, failed, touched>>

\* with PILImage.open(fp) as im: only a regular file can be opened
Open ==
    /\ pc = "open"
    /\ IsFile(folder, fp)
    /\ opened' = opened \cup {fp}
    /\ pc' = "convert"
    /\ UNCHANGED <<args, libs, folder, files, idx, row, ws, out_path, fsDirs,
                   written, mkdirs, exit_code, warned, wbCount, saves, failed, touched>>

\* im.convert("RGBA"), im.thumbnail(...), im.save(buf, format="PNG"),
\* XLImage(buf): they change nothing but the locals im, buf and xl_img
Advance(from, to) ==
    /\ pc = from
    /\ pc' = to
    /\ UNCHANGED <<args, libs, folder, files, idx, row, ws, opened, out_path,
                   fsDirs, written, mkdirs, exit_code, warned, wbCount, saves,
                   failed, touched>>

Convert == Advance("convert", "thumbnail")
Thumbnail == Advance("thumbnail", "encode")
Encode == Advance("encode", "xl_image")
MakeXLImage == Advance("xl_image", "height")

\* ws.row_dimensions[row].height = max(80, args.thumb_size * 0.75)
SetHeight ==
    /\ pc = "height"
    /\ ws' = [ws EXCEPT ![row].height = RowHeight(args.thumb_size)]
    /\ touched' = touched \cup {<<idx, row>>}
    /\ pc' = "add_image"
    /\ UNCHANGED <<args, libs, folder, files, idx, row, opened, out_path, fsDirs,
                   written, mkdirs, exit_code, warned, wbCount, saves, failed>>

\* ws.add_image(xl_img, f"A{row}")
AddImage ==
    /\ pc = "add_image"
    /\ ws' = [ws EXCEPT ![row].images = Append(@, fp)]
    /\ touched' = touched \cup {<<idx, row>>}
    /\ pc' = "name"
    /\ UNCHANGED <<args, libs, folder, files, idx, row, opened, out_path, fsDirs,
                   written, mkdirs, exit_code, warned, wbCount, saves, failed>>

\* ws[f"B{row}"] = fp.stem
WriteName ==
    /\ pc = "name"
    /\ ws' = [ws EXCEPT ![row].B = Stem(fp)]
    /\ touched' = touched \cup {<<idx, row>>}
    /\ pc' = "incr"
    /\ UNCHANGED <<args, libs, folder, files, idx, row, opened, out_path, fsDirs,
                   written, mkdirs, exit_code, warned, wbCount, saves, failed>>

\* row += 1 (last statement of the with block)
IncrRow ==
    /\ pc = "incr"
    /\ row' = row + 1
    /\ pc' = "close"
    /\ UNCHANGED <<args, libs, folder, files, idx, ws, opened, out_path, fsDirs,
                   written, mkdirs, exit_code, warned, wbCount, saves, failed, touched>>

\* leaving the with block: the source image is closed
Close ==
    /\ pc = "close"
    /\ opened' = opened \ {fp}
    /\ pc' = "loop"
    /\ UNCHANGED <<args, libs, folder, files, idx, row, ws, out_path, fsDirs,
                   written, mkdirs, exit_code, warned, wbCount, saves, failed, touched>>

\* The statements of the try block that call into the image and spreadsheet
\* libraries: any of them may raise, and so may closing the source image.
RaisingSteps ==
    {"open", "convert", "thumbnail", "encode", "xl_image", "add_image", "name", "close"}

\* (fault: the source image stays open when a statement raises)
RaiseAs(step) ==
    /\ pc = step
    /\ opened' = opened
    /\ failed' = failed \cup {idx}
    /\ pc' = "handler"
    /\ UNCHANGED <<args, libs, folder, files, idx, row, ws, out_path, fsDirs,
                   written, mkdirs, exit_code, warned, wbCount, saves, touched>>

\* An exception leaves the with block (which closes the source image, also
\* when it is the closing that raises) and reaches except Exception
Raise(step) ==
    /\ pc = step
    /\ opened' = opened \ {fp}
    /\ failed' = failed \cup {idx}
    /\ pc' = "handler"
    /\ UNCHANGED <<args, libs, folder, files, idx, row, ws, out_path, fsDirs,
                   written, mkdirs, exit_code, warned, wbCount, saves, touched>>

\* except Exception: ws[f"B{row}"] = f"[ERROR reading image] {fp.name}"; row += 1
Handler ==
    /\ pc = "handler"
    /\ ws' = [ws EXCEPT ![row].B = ErrorText(fp)]
    /\ touched' = touched \cup {<<idx, row>>}
    /\ row' = row + 1
    /\ pc' = "loop"
    /\ UNCHANGED <<args, libs, folder, files, idx, opened, out_path, fsDirs,
                   written, mkdirs, exit_code, warned, wbCount, saves, failed>>

(***************************************************************************)
(* main(): output                                                          *)
(***************************************************************************)
\* (fault: the timestamp is appended after the suffix)
TimestampedAs(p, ts) == WithName(p, Name(p) \o Underscore \o ts)

\* out_path.with_name(out_path.stem + f"_{ts}" + out_path.suffix)
Timestamped(p, ts) == WithName(p, Stem(p) \o Underscore \o ts \o Suffix(p))

\* out_path = Path(args.output), timestamped on request
OutName ==
    /\ pc = "out_name"
    /\ \E now \in Clocks :
           out_path' = IF args.timestamped
                       THEN Timestamped(args.output, Strftime(now))
                       ELSE args.output
    /\ pc' = "ensure_parent"
    /\ UNCHANGED <<args, libs, folder, files, idx, row, ws, opened, fsDirs,
                   written, mkdirs, exit_code, warned, wbCount, saves, failed, touched>>

\* The directories mkdir(parents=True) creates for d
MissingDirs(d, dirs) == {SubSeq(d, 1, n) : n \in 1..Len(d)} \ dirs

\* if out_path.parent and not out_path.parent.exists(): mkdir(parents=True)
EnsureParent ==
    /\ pc = "ensure_parent"
    /\ IF Parent(out_path) \notin fsDirs
       THEN /\ mkdirs' = mkdirs \cup MissingDirs(Parent(out_path), fsDirs)
            /\ fsDirs' = fsDirs \cup MissingDirs(Parent(out_path), fsDirs)
       ELSE UNCHANGED <<mkdirs, fsDirs>>
    /\ pc' = "save"
    /\ UNCHANGED <<args, libs, folder, files, idx, row, ws, opened, out_path,
                   written, exit_code, warned, wbCount, saves, failed, touched>>

\* wb.save(out_path)
Save ==
    /\ pc = "save"
    /\ written' = written \cup {out_path}
    /\ saves' = saves + 1
    /\ pc' = "report"
    /\ UNCHANGED <<args, libs, folder, files, idx, row, ws, opened, out_path,
                   fsDirs, mkdirs, exit_code, warned, wbCount, failed, touched>>

\* the two prints; main() returns
Report ==
    /\ pc = "report"
    /\ exit_code' = 0
    /\ pc' = "done"
    /\ UNCHANGED <<args, libs, folder, files, idx, row, ws, opened, out_path,
                   fsDirs, written, mkdirs, warned, wbCount, saves, failed, touched>>

Next ==
    \/ ImportPillow
    \/ ImportOpenpyxl
    \/ CheckInput
    \/ Collect
    \/ Prepare
    \/ LoopNext
    \/ Open
    \/ Convert
    \/ Thumbnail
    \/ Encode
    \/ MakeXLImage
    \/ SetHeight
    \/ AddImage
    \/ WriteName
    \/ IncrRow
    \/ Close
    \/ \E step \in RaisingSteps : Raise(step)
    \/ Handler
    \/ OutName
    \/ EnsureParent
    \/ Save
    \/ Report

Spec == Init /\ [][Next]_vars

(***************************************************************************)
(* Vocabulary of the properties                                            *)
(***************************************************************************)
\* The loop has finished and the run is at or past wb.save
AtSave == pc \in {"save", "report", "done"}

\* Between two files, or after the loop: no row is half written
BetweenFiles ==
    pc \in {"loop", "out_name", "ensure_parent", "save", "report", "done"}

\* Rows below the header that hold anything
DataRows == {r \in 2..RowLimit : ws[r] # EmptyRow}

\* Rows written while processing the k-th collected file (k from 1)
RowsOf(k) == {r \in 1..RowLimit : <<k, r>> \in touched}

\* The text starts with "[ERROR reading image] "
IsPlaceholder(text) ==
    /\ Len(text) >= Len(ErrPrefix)
    /\ SubSeq(text, 1, Len(ErrPrefix)) = ErrPrefix

\* The folder's image files as the specification counts them: regular
\* files, direct children unless recursive, lower-cased suffix supported
ImageFiles ==
    {e \in folder :
        /\ e.file
        /\ args.recursive \/ Len(e.parts) = 1
        /\ \E x \in SUPPORTED_EXTS :
              /\ Len(Suffix(e.parts)) = Len(x)
              /\ \A i \in 1..Len(x) : LowerChar(Suffix(e.parts)[i]) = x[i]}

\* str(path): the components joined by '/'
RECURSIVE PathStr(_)
PathStr(p) ==
    IF Len(p) = 0 THEN <<>>
    ELSE IF Len(p) = 1 THEN p[1]
    ELSE p[1] \o <<47>> \o PathStr(Tail(p))

\* The text has the shape YYYYMMDD_HHMMSS
IsTimestamp(ts) ==
    /\ Len(ts) = 15
    /\ ts[9] = 95
    /\ \A i \in (1..15) \ {9} : ts[i] >= 48 /\ ts[i] <= 57

(***************************************************************************)
(* C1                                                                      *)
(***************************************************************************)
\* C1: once the run reaches the save step, the number of data rows equals
\* the number of image files of the folder (regular files with a supported
\* suffix, direct children only unless recursive), however many failed.
C1_RowCount == AtSave => Cardinality(DataRows) = Cardinality(ImageFiles)

(***************************************************************************)
(* C2                                                                      *)
(***************************************************************************)
\* C2: a failing file does not abort the run; its row (the one it would
\* have had) carries exactly "[ERROR reading image] <name>" in column B, and
\* every file that did not fail has, at its own position, the row it would
\* have had anyway: thumbnail, stem and height.
C2_FailureContained ==
    AtSave =>
        /\ idx = Len(files)
        /\ \A k \in 1..Len(files) :
              IF k \in failed
              THEN ws[k + 1].B = ErrorText(files[k])
              ELSE ws[k + 1] =
                       [A |-> <<>>, B |-> Stem(files[k]), images |-> <<files[k]>>,
                        height |-> RowHeight(args.thumb_size)]

(***************************************************************************)
(* C3                                                                      *)
(***************************************************************************)
\* C3: when the input path is missing or not a directory, the run ends with
\* exit status 1 at the input check, and never writes an output file or
\* creates a directory.
C3_BadInputNoOutput ==
    args.input # "dir" =>
        /\ written = {} /\ mkdirs = {} /\ fsDirs = {<<>>} /\ saves = 0
        /\ pc \in {"import_pillow", "import_openpyxl", "check_input", "exited", "uncaught"}
        /\ (pc = "exited" => exit_code = 1)
        /\ (exit_code # -1 => exit_code = 1)

\* A run stopped by the input check
C3_Witness ==
    pc = "exited" /\ args.input = "missing" /\ exit_code = 1 /\ libs = "ok"

(***************************************************************************)
(* C4                                                                      *)
(***************************************************************************)
\* C4: with --timestamped the only file written is <stem>_<YYYYMMDD_HHMMSS>
\* <suffix> in the parent directory of the requested path, and the requested
\* path itself is not written; without the flag the file written is the
\* requested path.
C4_OutputName ==
    /\ ~AtSave \/ pc = "save" => written = {}
    /\ pc \in {"report", "done"} =>
          /\ Cardinality(written) = 1
          /\ \A w \in written :
                IF args.timestamped
                THEN LET stem == Stem(args.output)
                         ts == SubSeq(Name(w), Len(stem) + 2, Len(stem) + 16)
                     IN  /\ Parent(w) = Parent(args.output)
                         /\ IsTimestamp(ts)
                         /\ Name(w) = stem \o Underscore \o ts \o Suffix(args.output)
                         /\ \E now \in Clocks : ts = Strftime(now)
                         /\ args.output \notin written
                ELSE w = args.output

\* A timestamped file was written into a directory the run had to create
C4_Witness ==
    /\ pc = "done" /\ args.timestamped /\ Len(args.output) = 2
    /\ written # {} /\ mkdirs # {}

(***************************************************************************)
(* C5                                                                      *)
(***************************************************************************)
\* C5 as stated: rows follow the lexicographic order of the path texts: if
\* the path string of p is smaller than the path string of q, every row of
\* p is above every row of q.
C5_StringOrder ==
    \A i, j \in 1..Len(files) :
        TextLess(PathStr(files[i]), PathStr(files[j])) =>
            \A ri \in RowsOf(i), rj \in RowsOf(j) : ri < rj

\* C5 as amended: rows follow the order of the paths compared component by
\* component (each component as text): if p < q in that order, every row of
\* p is above every row of q; and the collected list is strictly increasing
\* in that order, so it does not depend on the order of enumeration.
C5_PathOrder ==
    /\ \A i, j \in 1..Len(files) :
          PathLess(files[i], files[j]) =>
              /\ i < j
              /\ \A ri \in RowsOf(i), rj \in RowsOf(j) : ri < rj
    /\ \A i, j \in 1..Len(files) :
          i # j => PathLess(files[i], files[j]) \/ PathLess(files[j], files[i])
    /\ pc \notin {"import_pillow", "import_openpyxl", "check_input", "collect",
                  "exited", "uncaught"}
          => {files[i] : i \in 1..Len(files)} = Matched(folder, args.recursive)

\* A finished run over two files whose path order and string order differ
C5_Witness ==
    /\ pc = "done" /\ Len(files) >= 2
    /\ \E i, j \in 1..Len(files) :
          /\ PathLess(files[i], files[j])
          /\ TextLess(PathStr(files[j]), PathStr(files[i]))
          /\ RowsOf(i) # {} /\ RowsOf(j) # {}

(***************************************************************************)
(* C6                                                                      *)
(***************************************************************************)
\* C6: the row counter starts at 2 and advances by exactly one per collected
\* file, success or failure at any step: the k-th file (k from 1 here)
\* writes only to row k + 1, and row 1 is never written by the loop.
C6_OneRowPerFile ==
    /\ \A t \in touched : t[2] = t[1] + 1
    /\ pc = "loop" => row = idx + 2

(***************************************************************************)
(* C7                                                                      *)
(***************************************************************************)
\* C7: once a file is done, a row with the placeholder in column B has no
\* image, a row with an image has the stem of that image's file in column
\* B, and no image of a failed file is anchored anywhere.
C7_PlaceholderNoImage ==
    BetweenFiles =>
        /\ \A r \in 2..RowLimit :
              /\ IsPlaceholder(ws[r].B) => ws[r].images = <<>>
              /\ ws[r].images # <<>> => ws[r].B = Stem(ws[r].images[1])
        /\ \A k \in failed : \A r \in 2..RowLimit :
              \A n \in 1..Len(ws[r].images) : ws[r].images[n] # files[k]

(***************************************************************************)
(* C8                                                                      *)
(***************************************************************************)
\* C8 as stated: in the saved document every data row, successful or
\* placeholder, has height max(80, 0.75 * thumb_size).
C8_EveryRowHeight ==
    AtSave =>
        \A r \in DataRows :
            /\ ws[r].height >= 80 * 4
            /\ ws[r].height >= 3 * args.thumb_size
            /\ ws[r].height \in {80 * 4, 3 * args.thumb_size}

\* C8 as amended: every row with an anchored image has height
\* max(80, 0.75 * thumb_size); a row without an image has that height or
\* none (a placeholder row has it only when the failure came after the
\* height was set).
C8_ImageRowHeight ==
    \A r \in 2..RowLimit :
        /\ ws[r].images # <<>> \/ ws[r].height # 0 =>
              /\ ws[r].height >= 80 * 4
              /\ ws[r].height >= 3 * args.thumb_size
              /\ ws[r].height \in {80 * 4, 3 * args.thumb_size}
        /\ ws[r].height # 0 => r \in DataRows

\* A saved document with an image row taller than 80 points and a
\* placeholder row without a height
C8_Witness ==
    /\ pc = "done" /\ 3 * args.thumb_size > 80 * 4
    /\ \E r \in DataRows : ws[r].images # <<>> /\ ws[r].height = 3 * args.thumb_size
    /\ \E r \in DataRows : IsPlaceholder(ws[r].B) /\ ws[r].height = 0

(***************************************************************************)
(* C9                                                                      *)
(***************************************************************************)
\* C9: the workbook is created once; the loop changes only the current row,
\* and the rows of earlier files lie above it; the row counter never goes
\* back; the workbook is saved at most once, only after every collected
\* file has been processed; no file is written and no directory created
\* before the loop has finished.
C9_Lifecycle ==
    [][ /\ wbCount' <= 1
        /\ saves' <= 1
        /\ row' >= row
        /\ (ws' # ws /\ pc # "prepare") =>
              /\ row >= 2 /\ idx >= 1
              /\ \A r \in 1..RowLimit : r # row => ws'[r] = ws[r]
              /\ \A t \in touched : t[1] < idx => t[2] < row
        /\ (written' # written \/ mkdirs' # mkdirs \/ fsDirs' # fsDirs \/ saves' # saves) =>
              /\ pc \in {"ensure_parent", "save"}
              /\ idx = Len(files)
              /\ \A k \in 1..Len(files) : RowsOf(k) # {}
              /\ saves = 0 /\ written = {}
      ]_vars

\* A finished run over at least two files, one of which failed
C9_Witness ==
    pc = "done" /\ saves = 1 /\ wbCount = 1 /\ Len(files) >= 2 /\ failed # {}

(***************************************************************************)
(* C10                                                                     *)
(***************************************************************************)
\* C10: at most one source image is open at any time, it is the current
\* file, and none is open when the next file is about to be opened, in the
\* handler, or after the loop.
C10_OneOpenFile ==
    /\ Cardinality(opened) <= 1
    /\ opened # {} => idx >= 1 /\ opened = {fp}
    /\ pc \notin {"convert", "thumbnail", "encode", "xl_image", "height",
                  "add_image", "name", "incr", "close"} => opened = {}

\* The second file raised after it was opened and its image anchored, and
\* the handler runs with no file open
C10_Witness ==
    pc = "handler" /\ idx = 2 /\ ws[row].images = <<fp>> /\ opened = {}

=============================================================================
